---- MODULE Spec2Model ----
(***************************************************************************)
(* pin-clientd (src/src/main.rs): the reconnection loop of main, one       *)
(* run_connection session at a time, and the inference tasks it spawns.    *)
(*                                                                         *)
(* The peer, the transport, the backends, the timer and the signal handler *)
(* are the environment: their outcomes are drawn with \E.                  *)
(***************************************************************************)
EXTENDS Integers, Sequences, FiniteSets, TLC

\* ------------------------------------------------------------- bounds ----
\* INFERENCE_REQUESTs the peer sends in one run of the process.
MaxTasks == 2
\* Longest configured node list.
MaxNodes == 2
\* Largest --threads value.
MaxThreads == 2
\* Longest interview script.
MaxPrompts == 2

VARIABLES
    RUNNING,          \* static RUNNING: AtomicBool
    TOTAL_REQUESTS,   \* static TOTAL_REQUESTS: AtomicU64
    config,           \* Config: nodes (aliases, in order), payout_address
    max_threads,      \* args.threads
    mpc,              \* main: "check" | "run" | "delay" | "exit"
    sess,             \* the session of the latest run_connection call: the
                      \*   value of TOTAL_REQUESTS when it was made (two
                      \*   sessions share one only if the earlier spawned no task)
    spc,              \* run_connection: "connect" | "auth" | "head" | "select"
                      \*   | "reg" | "interview" | "none"
    cause,            \* how the last run_connection returned
    semaphore,        \* session -> free permits of that session's Semaphore,
                      \*   for the sessions whose Arc<Semaphore> is still held
    rx,               \* receiving end of the live session's channel
    node_endpoints,   \* alias -> index into config.nodes, of the live session
    tasks,            \* spawned inference tasks, in spawn order: [sess (whose
                      \*   semaphore and tx it holds), request_id, st: "queued"
                      \*   | "running" | "sent" | "dropped"]
    wire,             \* frames handed to write.send since the loop last
                      \*   iterated (before the loop: since the connect)
    werr,             \* the transport reported an error for one of them
    reg,              \* AUTH_SUCCESS handler: [i, listed]
    iv,               \* INTERVIEW_REQUEST handler: the target resolved, or 0
    last              \* what the event loop did last: "entry" from the AUTH
                      \*   until the first branch of select runs, then the
                      \*   branch or handler of the current iteration;
                      \*   "none" outside the loop and once it has iterated

vars == <<RUNNING, TOTAL_REQUESTS, config, max_threads, mpc, sess, spc, cause,
          semaphore, rx, node_endpoints, tasks, wire, werr, reg, iv, last>>

\* ------------------------------------------------------ data and inputs ---
\* Option<String> payout_address: absent, Some(""), Some(non-empty).
Payouts == {"none", "empty", "addr"}

\* config.nodes, by alias; main refuses an empty list (main.rs 780-783). An
\* alias is any string: nothing keeps it from being "operator", the label
\* the INTERVIEW_REQUEST handler gives a request without node_id, or from
\* being the alias of an earlier node.
AliasNames == <<"n1", "operator", "n1", "n4">>
NodeLists == {[i \in 1..n |-> AliasNames[i]] : n \in 1..MaxNodes}

\* The configurations a run starts from: Some("") takes the branch None
\* takes, and is tried with one node only.
Configs ==
    {c \in [nodes : NodeLists, payout_address : Payouts] :
        c.payout_address = "empty" => Len(c.nodes) = 1}

\* node_id: Option<String> of an INTERVIEW_REQUEST: None, a configured alias,
\* or an alias that no configured node has.
NodeIds(nodes) == {<<>>, <<"zz">>} \cup {<<nodes[i]>> : i \in DOMAIN nodes}

\* Result<Vec<String>, String> of get_models.
ListResults == {[ok |-> TRUE, models |-> <<"m1">>], [ok |-> FALSE, models |-> <<>>]}

\* request_id of the n-th INFERENCE_REQUEST the peer sends: the peer gives
\* every request an id of its own.
RequestId(n) == <<"req", n>>

\* Result<OpenAIResponse, String> of one chat_completion call: usage is an
\* Option, here the completion_tokens it reports.
ChatResults == {[ok |-> TRUE, usage |-> <<7>>], [ok |-> FALSE, usage |-> <<>>]}

\* start.elapsed().as_millis() of one interview prompt.
Latencies == {5}

\* The sess of a task that has ended: it holds no semaphore and no tx.
Ended == -1

NoReg == [i |-> 0, listed |-> <<>>]
NoIv == 0

Frame(k, a) == [k |-> k, a |-> a]

\* write.send(Message::Text(frame)).await, the transport taking the frame
\* (ok) or reporting an error.
Write(f, ok) ==
    /\ wire' = Append(wire, f)
    /\ werr' = (werr \/ ~ok)

\* The session's rx is alive from line 477 until run_connection returns.
Alive(s) == s = sess /\ mpc = "run" /\ spc \notin {"connect", "none"}

\* ----------------------------------------------------------------- Init ---
Init ==
    /\ RUNNING = TRUE
    /\ TOTAL_REQUESTS = 0
    /\ config \in Configs
    /\ max_threads \in 1..MaxThreads
    /\ mpc = "check"
    /\ sess = 0
    /\ spc = "none"
    /\ cause = "none"
    /\ semaphore = <<>>
    /\ rx = <<>>
    /\ node_endpoints = <<>>
    /\ tasks = <<>>
    /\ wire = <<>>
    /\ werr = FALSE
    /\ reg = NoReg
    /\ iv = NoIv
    /\ last = "none"

\* ------------------------------------------------------------------ main ---
\* What no step of a session changes.
Globals == <<RUNNING, config, max_threads>>

\* ctrlc handler.
Signal ==
    /\ mpc # "exit"
    /\ RUNNING
    /\ RUNNING' = FALSE
    /\ UNCHANGED <<TOTAL_REQUESTS, config, max_threads, mpc, sess, spc, cause,
                   semaphore, rx, node_endpoints, tasks, wire, werr,
                   reg, iv, last>>

\* A reconnection loop that never looks at RUNNING.
ReconnectAlways ==
    /\ mpc = "check"
    /\ mpc' = "run"
    /\ sess' = TOTAL_REQUESTS
    /\ spc' = "connect"
    /\ wire' = <<>>
    /\ werr' = FALSE
    /\ cause' = "none"
    /\ UNCHANGED <<RUNNING, TOTAL_REQUESTS, config, max_threads, semaphore, rx,
                   node_endpoints, tasks, reg, iv, last>>

\* while RUNNING.load() { run_connection(..) ... }
MainLoop ==
    /\ mpc = "check"
    /\ IF RUNNING
       THEN /\ mpc' = "run"
            /\ sess' = TOTAL_REQUESTS
            /\ spc' = "connect"
            /\ wire' = <<>>
            /\ werr' = FALSE
            /\ cause' = "none"
       ELSE /\ mpc' = "exit"
            /\ UNCHANGED <<sess, spc, wire, werr, cause>>
    /\ UNCHANGED <<TOTAL_REQUESTS, semaphore, rx, node_endpoints,
                   tasks, reg, iv, last>>
    /\ UNCHANGED Globals

\* A reconnection loop that retries at once.
NoDelay == "check"

\* The match on run_connection's result: both arms sleep only if RUNNING.
AfterSession == IF RUNNING THEN "delay" ELSE "check"

\* tokio::time::sleep(reconnect_delay_secs) returns.
DelayDone ==
    /\ mpc = "delay"
    /\ mpc' = "check"
    /\ UNCHANGED <<TOTAL_REQUESTS, sess, spc, cause, semaphore, rx,
                   node_endpoints, tasks, wire, werr, reg, iv, last>>
    /\ UNCHANGED Globals

\* The semaphores still held once holder h (task h, or 0 for run_connection
\* itself) has dropped its Arc: a session's semaphore is freed with its last
\* holder.
Release(sem, h) ==
    LET held == {tasks[t].sess : t \in DOMAIN tasks \ {h}}
                    \cup (IF h # 0 /\ Alive(sess) THEN {sess} ELSE {})
    IN  [s \in DOMAIN sem \cap held |-> sem[s]]

\* run_connection returns (Ok or Err): its locals, rx among them, are dropped.
Return(c) ==
    /\ spc' = "none"
    /\ semaphore' = Release(semaphore, 0)
    /\ cause' = c
    /\ mpc' = AfterSession
    /\ rx' = <<>>
    /\ node_endpoints' = <<>>
    /\ reg' = NoReg
    /\ iv' = NoIv
    /\ last' = "none"

\* -------------------------------------------------------- run_connection ---
\* connect_async(..).await? and the per-session semaphore and channel.
Connect ==
    /\ mpc = "run" /\ spc = "connect"
    /\ \/ /\ spc' = "auth"
          /\ semaphore' = semaphore @@ (sess :> max_threads)
          /\ UNCHANGED <<mpc, cause, rx, node_endpoints, reg, iv, last>>
       \/ Return("Err:connect")
    /\ UNCHANGED <<TOTAL_REQUESTS, sess, tasks, wire, werr>>
    /\ UNCHANGED Globals

\* The NodeEndpointTable: a later node with the same alias replaces an earlier.
EndpointTable(nodes) ==
    [a \in {nodes[i] : i \in DOMAIN nodes} |->
        CHOOSE i \in DOMAIN nodes :
            nodes[i] = a /\ \A j \in DOMAIN nodes : nodes[j] = a => j <= i]

\* A session that enters its event loop whatever the AUTH write returned.
AuthUnchecked ==
    /\ mpc = "run" /\ spc = "auth"
    /\ \E ok \in BOOLEAN : Write(Frame("AUTH", <<>>), ok)
    /\ node_endpoints' = EndpointTable(config.nodes)
    /\ spc' = "head"
    /\ last' = "entry"
    /\ UNCHANGED <<RUNNING, TOTAL_REQUESTS, config, max_threads, mpc, sess,
                   cause, semaphore, rx, tasks, reg, iv>>

\* write.send(AUTH).await? and the node_endpoints table.
SendAuth ==
    /\ mpc = "run" /\ spc = "auth"
    /\ \E ok \in BOOLEAN :
        /\ Write(Frame("AUTH", <<>>), ok)
        /\ IF ok
           THEN /\ node_endpoints' = EndpointTable(config.nodes)
                /\ spc' = "head"
                /\ last' = "entry"
                /\ UNCHANGED <<mpc, cause, semaphore, rx, reg, iv>>
           ELSE Return("Err:send")
    /\ UNCHANGED <<TOTAL_REQUESTS, sess, tasks>>
    /\ UNCHANGED Globals

\* An event loop that never looks at RUNNING.
LoopUnconditional ==
    /\ mpc = "run" /\ spc = "head"
    /\ spc' = "select"
    /\ reg' = NoReg
    /\ last' = IF last = "entry" THEN "entry" ELSE "none"
    /\ wire' = <<>>
    /\ werr' = FALSE
    /\ UNCHANGED <<RUNNING, TOTAL_REQUESTS, config, max_threads, mpc, sess,
                   cause, semaphore, rx, node_endpoints, tasks, iv>>

\* while RUNNING.load(Ordering::SeqCst) { tokio::select! .. }
LoopHead ==
    /\ mpc = "run" /\ spc = "head"
    /\ IF RUNNING
       THEN /\ spc' = "select"
            /\ reg' = NoReg
            /\ last' = IF last = "entry" THEN "entry" ELSE "none"
            /\ UNCHANGED <<mpc, cause, semaphore, rx, node_endpoints, iv>>
       ELSE Return("Ok")
    /\ wire' = <<>>
    /\ werr' = FALSE
    /\ UNCHANGED <<TOTAL_REQUESTS, sess, tasks>>
    /\ UNCHANGED Globals

\* A select branch (b) ran to its end: the loop iterates.
Iterate(b) ==
    /\ spc' = "head"
    /\ last' = b
    /\ UNCHANGED <<mpc, cause, node_endpoints>>

\* response_json = rx.recv(): write the reply; a write error is only logged.
Drain ==
    /\ mpc = "run" /\ spc = "select"
    /\ rx # <<>>
    /\ \E ok \in BOOLEAN : Write(Head(rx), ok)
    /\ rx' = Tail(rx)
    /\ Iterate("reply")
    /\ UNCHANGED <<TOTAL_REQUESTS, sess, semaphore, tasks, reg, iv>>
    /\ UNCHANGED Globals

\* _ = tokio::time::sleep(30 s): the sleep made by this select has elapsed
\* before another branch was ready. Send HEARTBEAT; break if the write fails.
Heartbeat ==
    /\ mpc = "run" /\ spc = "select"
    /\ \E ok \in BOOLEAN :
        /\ Write(Frame("HEARTBEAT", <<>>), ok)
        /\ IF ok
           THEN Iterate("heartbeat") /\ UNCHANGED <<semaphore, rx, reg, iv>>
           ELSE Return("Ok")
    /\ UNCHANGED <<TOTAL_REQUESTS, sess, tasks>>
    /\ UNCHANGED Globals

\* --------------------------------------------------------------- router ---
\* A frame arrives while the select waits: msg = read.next().
Routing == mpc = "run" /\ spc = "select"

\* A wallet test that looks only at whether payout_address is present.
WalletPresent == config.payout_address # "none"

\* payout_address is Some and not empty.
WalletConfigured == config.payout_address = "addr"

\* AUTH_SUCCESS: the wallet update, then the registration loop begins.
RouteAuthSuccess ==
    /\ Routing
    /\ IF WalletConfigured
       THEN \E ok \in BOOLEAN : Write(Frame("UPDATE_WALLET", <<config.payout_address>>), ok)
       ELSE UNCHANGED <<wire, werr>>
    /\ reg' = [i |-> 1, listed |-> <<>>]
    /\ spc' = "reg"
    /\ last' = "AUTH_SUCCESS"
    /\ UNCHANGED <<TOTAL_REQUESTS, mpc, sess, cause, semaphore, rx,
                   node_endpoints, tasks, iv>>
    /\ UNCHANGED Globals

\* models = match get_models(..) { Ok(m) => m, Err(e) => vec![] }
RegisteredModels(lr) == IF lr.ok THEN lr.models ELSE <<>>

\* A registration loop that a failed listing ends.
StopOnFailure(i, lr, ok) == IF lr.ok THEN i + 1 ELSE Len(config.nodes) + 1

\* for node_config in &config.nodes: the loop goes on to the next node
\* whatever get_models and write.send returned.
NextNode(i, lr, ok) == i + 1

\* A registration loop that a failed listing ends with an error.
RegisterOrFail ==
    /\ mpc = "run" /\ spc = "reg"
    /\ \E lr \in ListResults, ok \in BOOLEAN :
        IF lr.ok
        THEN /\ Write(Frame("REGISTER_NODE", <<config.nodes[reg.i], lr.models>>), ok)
             /\ reg' = [i |-> reg.i + 1, listed |-> Append(reg.listed, lr)]
             /\ spc' = IF reg'.i > Len(config.nodes) THEN "head" ELSE "reg"
             /\ UNCHANGED <<mpc, cause, semaphore, rx, node_endpoints, iv, last>>
        ELSE /\ Return("Err:backend")
             /\ UNCHANGED <<wire, werr>>
    /\ UNCHANGED <<RUNNING, TOTAL_REQUESTS, config, max_threads, sess, tasks>>

\* A registration loop that leaves after its first node.
RegisterFirstOnly ==
    /\ mpc = "run" /\ spc = "reg"
    /\ \E lr \in ListResults, ok \in BOOLEAN :
        /\ Write(Frame("REGISTER_NODE",
                       <<config.nodes[reg.i], RegisteredModels(lr)>>), ok)
        /\ reg' = [i |-> reg.i + 1, listed |-> Append(reg.listed, lr)]
    /\ spc' = "head"
    /\ UNCHANGED <<RUNNING, TOTAL_REQUESTS, config, max_threads, mpc, sess,
                   cause, semaphore, rx, node_endpoints, tasks, iv, last>>

\* A registration loop that writes a waiting reply after each node.
RegisterAndDrain ==
    /\ mpc = "run" /\ spc = "reg"
    /\ \E lr \in ListResults, ok \in BOOLEAN :
        /\ wire' = Append(wire, Frame("REGISTER_NODE",
                                      <<config.nodes[reg.i], RegisteredModels(lr)>>))
                   \o (IF rx = <<>> THEN <<>> ELSE <<Head(rx)>>)
        /\ werr' = (werr \/ ~ok)
        /\ reg' = [i |-> reg.i + 1, listed |-> Append(reg.listed, lr)]
    /\ rx' = IF rx = <<>> THEN rx ELSE Tail(rx)
    /\ spc' = IF reg'.i > Len(config.nodes) THEN "head" ELSE "reg"
    /\ UNCHANGED <<RUNNING, TOTAL_REQUESTS, config, max_threads, mpc, sess,
                   cause, semaphore, node_endpoints, tasks, iv, last>>

\* One iteration of the registration loop: get_models, then REGISTER_NODE.
RegisterNode ==
    /\ mpc = "run" /\ spc = "reg"
    /\ \E lr \in ListResults, ok \in BOOLEAN :
        /\ Write(Frame("REGISTER_NODE",
                       <<config.nodes[reg.i], RegisteredModels(lr)>>), ok)
        /\ reg' = [i |-> NextNode(reg.i, lr, ok),
                   listed |-> Append(reg.listed, lr)]
    /\ spc' = IF reg'.i > Len(config.nodes) THEN "head" ELSE "reg"
    /\ UNCHANGED <<TOTAL_REQUESTS, mpc, sess, cause, semaphore, rx,
                   node_endpoints, tasks, iv, last>>
    /\ UNCHANGED Globals

\* REGISTER_NODE_ACK, HEARTBEAT_ACK, MODEL_LIST_ACK, UPDATE_WALLET_ACK and
\* INTERVIEW_COMPLETE (tier "failed" too): logged at most.
AckKinds == {"REGISTER_NODE_ACK", "HEARTBEAT_ACK", "MODEL_LIST_ACK",
             "UPDATE_WALLET_ACK", "INTERVIEW_COMPLETE", "INTERVIEW_COMPLETE:failed"}

\* A router that ends the session when the tier of an INTERVIEW_COMPLETE is
\* "failed".
AckFailedCloses ==
    /\ mpc = "run" /\ spc = "select"
    /\ \E kind \in AckKinds :
        IF kind = "INTERVIEW_COMPLETE:failed"
        THEN /\ spc' = "none"
             /\ last' = "ack:failed"
             /\ cause' = "Ok"
             /\ mpc' = AfterSession
             /\ UNCHANGED node_endpoints
        ELSE Iterate("ack")
    /\ UNCHANGED <<RUNNING, TOTAL_REQUESTS, config, max_threads, sess,
                   semaphore, rx, tasks, wire, werr, reg, iv>>

\* The ack arms and INTERVIEW_COMPLETE: they log, and the loop iterates.
RouteAck ==
    /\ Routing
    /\ \E kind \in AckKinds :
        Iterate(IF kind = "INTERVIEW_COMPLETE:failed" THEN "ack:failed" ELSE "ack")
    /\ UNCHANGED <<TOTAL_REQUESTS, sess, semaphore, rx, tasks, wire, werr,
                   reg, iv>>
    /\ UNCHANGED Globals

\* A router that answers an undecodable frame with an error message.
DecodeAnswered ==
    /\ mpc = "run" /\ spc = "select"
    /\ \E ok \in BOOLEAN : Write(Frame("ERROR", <<>>), ok)
    /\ Iterate("undecodable")
    /\ UNCHANGED <<RUNNING, TOTAL_REQUESTS, config, max_threads, sess,
                   semaphore, rx, tasks, reg, iv>>

\* serde_json::from_str fails (malformed JSON, unknown tag): warn only.
DecodeFailure ==
    /\ Routing
    /\ Iterate("undecodable")
    /\ UNCHANGED <<TOTAL_REQUESTS, sess, semaphore, rx, tasks, wire, werr,
                   reg, iv>>
    /\ UNCHANGED Globals

\* Binary, Ping, Pong and Frame messages: the _ => {} arm.
OtherFrame ==
    /\ Routing
    /\ Iterate("other")
    /\ UNCHANGED <<TOTAL_REQUESTS, sess, semaphore, rx, tasks, wire, werr,
                   reg, iv>>
    /\ UNCHANGED Globals

\* An ERROR handler that records the message and lets the loop go on.
ErrorIgnored ==
    /\ mpc = "run" /\ spc = "select"
    /\ cause' = "Err:server"
    /\ spc' = "head"
    /\ last' = "ERROR"
    /\ UNCHANGED <<RUNNING, TOTAL_REQUESTS, config, max_threads, mpc, sess,
                   semaphore, rx, node_endpoints, tasks, wire, werr, reg, iv>>

\* ERROR { message }: return Err(message.into()).
RouteError ==
    /\ Routing
    /\ Return("Err:server")
    /\ UNCHANGED <<TOTAL_REQUESTS, sess, tasks, wire, werr>>
    /\ UNCHANGED Globals

\* Message::Close, Some(Err(e)) and None: break.
EndKinds == {"close", "read_error", "stream_end"}

PeerClose ==
    /\ Routing
    /\ \E kind \in EndKinds : Return("Ok")
    /\ UNCHANGED <<TOTAL_REQUESTS, sess, tasks, wire, werr>>
    /\ UNCHANGED Globals

\* PING: write a PONG; the write's result is dropped (let _ =).
RoutePing ==
    /\ Routing
    /\ \E ok \in BOOLEAN : Write(Frame("PONG", <<>>), ok)
    /\ Iterate("PING")
    /\ UNCHANGED <<TOTAL_REQUESTS, sess, semaphore, rx, tasks, reg, iv>>
    /\ UNCHANGED Globals

\* ------------------------------------------------------------ interview ---
\* node_label = node_id.as_deref().unwrap_or("operator")
NodeLabel(node_id) == IF node_id = <<>> THEN "operator" ELSE node_id[1]

\* node_endpoints.get(node_label), else config.nodes.first(): the index of
\* the node whose endpoint and api_mode the interview uses.
ResolveTarget(node_id) ==
    IF NodeLabel(node_id) \in DOMAIN node_endpoints
    THEN node_endpoints[NodeLabel(node_id)]
    ELSE 1

\* run_interview_prompt: the PromptResult for one chat_completion result.
RunInterviewPrompt(prompt_id, r, total_ms) ==
    IF r.ok
    THEN [prompt_id |-> prompt_id, response |-> "text",
          ttft_ms |-> total_ms \div 2, total_ms |-> total_ms,
          tokens_generated |-> IF r.usage = <<>> THEN 0 ELSE r.usage[1],
          error |-> <<>>]
    ELSE [prompt_id |-> prompt_id, response |-> "",
          ttft_ms |-> 0, total_ms |-> total_ms,
          tokens_generated |-> 0, error |-> <<"e">>]

\* An interview that stops at the first prompt that fails.
RECURSIVE AbortOnFailure(_, _, _)
AbortOnFailure(i, k, outs) ==
    IF i > k
    THEN <<>>
    ELSE IF outs[i][1].ok
         THEN <<RunInterviewPrompt(i, outs[i][1], outs[i][2])>>
              \o AbortOnFailure(i + 1, k, outs)
         ELSE <<RunInterviewPrompt(i, outs[i][1], outs[i][2])>>

\* execute_interview: for (i, prompt) in prompts.iter().enumerate(), push the
\* prompt's result. prompts[i] has id i; outs[i] = <<result, latency>> is
\* what the backend does with the i-th call made.
RECURSIVE ExecuteInterview(_, _, _)
ExecuteInterview(i, k, outs) ==
    IF i > k
    THEN <<>>
    ELSE <<RunInterviewPrompt(i, outs[i][1], outs[i][2])>>
         \o ExecuteInterview(i + 1, k, outs)

\* INTERVIEW_REQUEST: resolve the target; execute_interview starts.
RouteInterviewRequest ==
    /\ Routing
    /\ \E node_id \in NodeIds(config.nodes) : iv' = ResolveTarget(node_id)
    /\ spc' = "interview"
    /\ last' = "INTERVIEW_REQUEST"
    /\ UNCHANGED <<TOTAL_REQUESTS, mpc, sess, cause, semaphore, rx,
                   node_endpoints, tasks, wire, werr, reg>>
    /\ UNCHANGED Globals

\* An interview handler that writes the waiting replies before its result.
InterviewFlush ==
    /\ mpc = "run" /\ spc = "interview"
    /\ \E k \in 0..MaxPrompts :
        \E outs \in [1..k -> ChatResults \X Latencies], ok \in BOOLEAN :
            /\ wire' = wire \o rx \o
                       <<Frame("INTERVIEW_RESULT", ExecuteInterview(1, k, outs))>>
            /\ werr' = (werr \/ ~ok)
    /\ rx' = <<>>
    /\ iv' = NoIv
    /\ spc' = "head"
    /\ UNCHANGED <<RUNNING, TOTAL_REQUESTS, config, max_threads, mpc, sess,
                   cause, semaphore, node_endpoints, tasks, reg, last>>

\* execute_interview returns; write.send(INTERVIEW_RESULT): a write error is
\* only logged.
InterviewSend ==
    /\ mpc = "run" /\ spc = "interview"
    /\ \E k \in 0..MaxPrompts :
        \E outs \in [1..k -> ChatResults \X Latencies], ok \in BOOLEAN :
            Write(Frame("INTERVIEW_RESULT", ExecuteInterview(1, k, outs)), ok)
    /\ iv' = NoIv
    /\ spc' = "head"
    /\ UNCHANGED <<TOTAL_REQUESTS, mpc, sess, cause, semaphore, rx,
                   node_endpoints, tasks, reg, last>>
    /\ UNCHANGED Globals

\* ------------------------------------------------------------ dispatcher ---
\* A handler that takes the permit itself before it returns.
BlockingSubmit ==
    /\ mpc = "run" /\ spc = "select"
    /\ Len(tasks) < MaxTasks
    /\ semaphore[sess] > 0
    /\ semaphore' = [semaphore EXCEPT ![sess] = @ - 1]
    /\ TOTAL_REQUESTS' = TOTAL_REQUESTS + 1
    /\ tasks' = Append(tasks, [sess |-> sess,
                               request_id |-> <<"req", Len(tasks) + 1>>,
                               st |-> "running"])
    /\ spc' = "head"
    /\ last' = "INFERENCE_REQUEST"
    /\ UNCHANGED <<RUNNING, config, max_threads, mpc, sess, cause, rx,
                   node_endpoints, wire, werr, reg, iv>>

\* INFERENCE_REQUEST: count it, tokio::spawn the task, return at once.
RouteInferenceRequest ==
    /\ Routing
    /\ Len(tasks) < MaxTasks
    /\ TOTAL_REQUESTS' = TOTAL_REQUESTS + 1
    /\ tasks' = Append(tasks, [sess |-> sess,
                               request_id |-> RequestId(Len(tasks) + 1),
                               st |-> "queued"])
    /\ Iterate("INFERENCE_REQUEST")
    /\ UNCHANGED <<sess, semaphore, rx, wire, werr, reg, iv>>
    /\ UNCHANGED Globals

\* What a step of a spawned task leaves alone.
LoopState == <<TOTAL_REQUESTS, mpc, sess, spc, cause, node_endpoints,
               wire, werr, reg, iv, last>>

\* Spawned tasks run on main's runtime: they are polled until main returns.
Polled == mpc # "exit"

\* A limiter that never makes a task wait.
NoLimit(s) == TRUE

\* sem.acquire().await completes only while the semaphore has a permit.
PermitAvailable(s) == semaphore[s] > 0

\* A task that takes its permit from the limiter of the session now alive.
AcquireLive(t) ==
    /\ Polled
    /\ tasks[t].st = "queued"
    /\ sess \in DOMAIN semaphore
    /\ PermitAvailable(sess)
    /\ semaphore' = [semaphore EXCEPT ![sess] = @ - 1]
    /\ tasks' = [tasks EXCEPT ![t].st = "running"]
    /\ UNCHANGED rx
    /\ UNCHANGED LoopState
    /\ UNCHANGED <<RUNNING, config, max_threads>>

\* let _permit = sem.acquire().await: the task starts its backend call.
Acquire(t) ==
    /\ Polled
    /\ tasks[t].st = "queued"
    /\ PermitAvailable(tasks[t].sess)
    /\ semaphore' = [semaphore EXCEPT ![tasks[t].sess] = @ - 1]
    /\ tasks' = [tasks EXCEPT ![t].st = "running"]
    /\ UNCHANGED rx
    /\ UNCHANGED LoopState
    /\ UNCHANGED Globals

\* msg_type of the ClientMessage built from the chat_completion result.
ReplyKind(r) == IF r.ok THEN "INFERENCE_RESPONSE" ELSE "INFERENCE_ERROR"

\* A reply that always carries the id of the first request.
FirstRequestId(t) == tasks[1].request_id

\* request_id: Some(request_id), the id moved into the task.
ReplyId(t) == tasks[t].request_id

\* The reply of task t: its id, and (for the record) the task, whether its
\* backend call succeeded and the session that spawned it.
Reply(t, r) == Frame(ReplyKind(r), <<ReplyId(t), t, r.ok, tasks[t].sess>>)

\* One queue for all sessions: tx.send is Ok while any session is alive.
SharedQueue(s) == mpc = "run" /\ spc \notin {"connect", "none"}

\* tx.send(json) is Ok while the receiver of the task's own session exists.
Delivered(s) == Alive(s)

\* What tx.send does to the live queue q with task t's reply f.
Pushed(q, t, f) == IF Delivered(tasks[t].sess) THEN Append(q, f) ELSE q

\* How the task ends: tx.send returned Ok ("sent") or Err ("dropped"); the
\* task ignores which (let _ =).
EndState(t) == IF Delivered(tasks[t].sess) THEN "sent" ELSE "dropped"

\* A task that writes its reply to the connection itself.
CompleteWrites(t) ==
    /\ Polled
    /\ tasks[t].st = "running"
    /\ \E r \in ChatResults :
        /\ wire' = IF Delivered(tasks[t].sess)
                   THEN Append(wire, Reply(t, r)) ELSE wire
        /\ tasks' = [tasks EXCEPT ![t].st = EndState(t), ![t].sess = Ended]
    /\ semaphore' = Release([semaphore EXCEPT ![tasks[t].sess] = @ + 1], t)
    /\ UNCHANGED <<RUNNING, TOTAL_REQUESTS, config, max_threads, mpc, sess,
                   spc, cause, node_endpoints, rx, werr, reg, iv, last>>

\* A task that keeps its permit when its backend call failed.
CompleteLeaks(t) ==
    /\ Polled
    /\ tasks[t].st = "running"
    /\ \E r \in ChatResults :
        /\ rx' = Pushed(rx, t, Reply(t, r))
        /\ tasks' = [tasks EXCEPT ![t].st = EndState(t), ![t].sess = Ended]
        /\ semaphore' = Release([semaphore EXCEPT ![tasks[t].sess] =
                                    IF r.ok THEN @ + 1 ELSE @], t)
    /\ UNCHANGED LoopState
    /\ UNCHANGED <<RUNNING, config, max_threads>>

\* chat_completion returns: the reply is built and sent on the task's tx,
\* then the task ends and _permit is dropped.
Complete(t) ==
    /\ Polled
    /\ tasks[t].st = "running"
    /\ \E r \in ChatResults :
        /\ rx' = Pushed(rx, t, Reply(t, r))
        /\ tasks' = [tasks EXCEPT ![t].st = EndState(t), ![t].sess = Ended]
    /\ semaphore' = Release([semaphore EXCEPT ![tasks[t].sess] = @ + 1], t)
    /\ UNCHANGED LoopState
    /\ UNCHANGED Globals

\* ------------------------------------------------------------------ Spec ---
Next ==
    \/ Signal
    \/ MainLoop
    \/ DelayDone
    \/ Connect
    \/ SendAuth
    \/ LoopHead
    \/ Drain
    \/ Heartbeat
    \/ RouteAuthSuccess
    \/ RegisterNode
    \/ RouteAck
    \/ DecodeFailure
    \/ OtherFrame
    \/ RouteError
    \/ PeerClose
    \/ RoutePing
    \/ RouteInterviewRequest
    \/ InterviewSend
    \/ RouteInferenceRequest
    \/ \E t \in DOMAIN tasks : Acquire(t)
    \/ \E t \in DOMAIN tasks : Complete(t)

Spec == Init /\ [][Next]_vars

\* What the runtime guarantees of the event loop: the loop condition is
\* evaluated (LoopHead) and a handler that has begun returns (RegisterNode,
\* InterviewSend); select! picks at random among its ready branches, so a
\* reply that is ready again and again is taken (Drain); the sleep of the
\* heartbeat branch is made anew by every evaluation of select!, so it
\* completes only if that one evaluation waits for its full 30 s (Heartbeat).
LiveSpec ==
    /\ Spec
    /\ WF_vars(LoopHead)
    /\ WF_vars(RegisterNode)
    /\ WF_vars(InterviewSend)
    /\ SF_vars(Drain)
    /\ WF_vars(Heartbeat)

\* ---------------------------------------------------------------- claims ---
ReplyKinds == {"INFERENCE_RESPONSE", "INFERENCE_ERROR"}

\* The tasks of session s whose backend call is executing.
Executing(s) == {t \in DOMAIN tasks : tasks[t].sess = s /\ tasks[t].st = "running"}

\* The tasks of session s waiting for a permit.
Waiting(s) == {t \in DOMAIN tasks : tasks[t].sess = s /\ tasks[t].st = "queued"}

\* C1 as stated: every routed INFERENCE_REQUEST whose task has ended has
\* produced a reply, never zero.
C1_NeverZero == \A t \in DOMAIN tasks : tasks[t].st # "dropped"

\* C1: a task whose backend call returns pushes exactly one reply onto the
\* outbound queue if its session is still alive, and none if the session has
\* ended; the reply is an INFERENCE_RESPONSE when the call succeeded and an
\* INFERENCE_ERROR when it failed, and carries the id of the task's request;
\* an ended task pushes nothing more, and nothing else pushes a reply.
C1_OneReplyWhileAlive ==
    [][\/ tasks' = tasks /\ Len(rx') <= Len(rx)
       \/ /\ \A t \in DOMAIN tasks :
                /\ tasks[t].st \in {"sent", "dropped"} => tasks'[t] = tasks[t]
                /\ (tasks[t].st = "running" /\ tasks'[t].st # "running") =>
                     IF tasks[t].sess = sess /\ mpc = "run"
                        /\ spc \notin {"connect", "none"}
                     THEN /\ tasks'[t].st = "sent"
                          /\ rx' = Append(rx, rx'[Len(rx')])
                          /\ rx'[Len(rx')].k \in ReplyKinds
                          /\ rx'[Len(rx')].a[1] = RequestId(t)
                          /\ rx'[Len(rx')].a[3]
                                = (rx'[Len(rx')].k = "INFERENCE_RESPONSE")
                     ELSE /\ tasks'[t].st = "dropped"
                          /\ rx' = rx
          /\ Len(rx') > Len(rx) =>
                \E t \in DOMAIN tasks :
                    tasks[t].st = "running" /\ tasks'[t].st = "sent"
      ]_vars

\* The second request's backend call failed and its INFERENCE_ERROR is on the
\* outbound queue.
C1_Witness ==
    \E i \in DOMAIN rx :
        /\ rx[i].k = "INFERENCE_ERROR"
        /\ rx[i].a[1] = RequestId(2)
        /\ tasks[2].st = "sent"

\* C2: in every session the backend calls executing at one moment are at most
\* the limiter size N, so while N are executing an (N+1)th submitted task has
\* not started.
C2_AtMostNExecuting ==
    \A s \in DOMAIN semaphore : Cardinality(Executing(s)) <= max_threads

\* N calls of the live session are executing and one more task waits.
C2_Witness ==
    /\ sess \in DOMAIN semaphore
    /\ Cardinality(Executing(sess)) = max_threads
    /\ Waiting(sess) # {}

\* C3: while and after an AUTH_SUCCESS is handled, the REGISTER_NODE frames
\* sent are one per node handled so far, in configuration order, each with the
\* models its own listing returned (none if that listing failed); the handler
\* ends only when every configured node has been handled.
C3_RegistersEveryNode ==
    reg.i > 0 =>
        LET done == Len(reg.listed)
            off == Len(wire) - done
        IN  /\ done = reg.i - 1
            /\ spc = "reg" => done < Len(config.nodes)
            /\ spc # "reg" => done = Len(config.nodes)
            /\ off >= 0
            /\ \A j \in 1..off : wire[j].k # "REGISTER_NODE"
            /\ \A j \in 1..done :
                wire[off + j] =
                    Frame("REGISTER_NODE",
                          <<config.nodes[j],
                            IF reg.listed[j].ok THEN reg.listed[j].models ELSE <<>>>>)

\* The handler has ended for two nodes: the first node's listing failed, the
\* second's succeeded.
C3_Witness ==
    /\ spc = "head"
    /\ Len(reg.listed) = 2
    /\ ~reg.listed[1].ok
    /\ reg.listed[2].ok
    /\ wire[Len(wire)].a = <<config.nodes[2], <<"m1">>>>

\* The session is in its event loop (a handler may be running).
Steady == mpc = "run" /\ spc \in {"head", "select", "reg", "interview"}

\* The frame written last is a HEARTBEAT.
HeartbeatSent == wire # <<>> /\ wire[Len(wire)].k = "HEARTBEAT"

\* C4 as stated: in a session that stays in steady state a HEARTBEAT is sent
\* again and again, however often inbound frames arrive or replies are ready.
C4_HeartbeatNotStarved == <>[]Steady => []<>HeartbeatSent

\* C5 as stated: with limiter size 1 no reply is on the outbound queue while
\* an earlier request of the same session is still without its reply.
C5_FifoCompletion ==
    max_threads = 1 =>
        \A i \in DOMAIN rx :
            \A t \in DOMAIN tasks :
                t < rx[i].a[2] => tasks[t].sess # sess

\* C6 as stated: a write that fails while the session is in its event loop
\* makes the loop exit.
C6_WriteErrorExits ==
    [][(mpc = "run" /\ spc \in {"select", "reg", "interview"} /\ ~werr /\ werr')
          => spc' = "none"]_vars

\* C7: routing an ERROR ends run_connection in that step with the server's
\* message as the cause and hands control to the reconnection loop, writing
\* nothing and leaving every task as it is; until a new session begins no
\* frame is written and no request is routed.
C7_ErrorTerminates ==
    [][/\ (mpc = "run" /\ spc = "select" /\ cause' = "Err:server") =>
            /\ spc' = "none"
            /\ mpc' \in {"delay", "check"}
            /\ wire' = wire /\ werr' = werr
            /\ tasks' = tasks
            /\ \A t \in DOMAIN tasks :
                 tasks[t].st \in {"queued", "running"} =>
                     /\ tasks[t].sess \in DOMAIN semaphore'
                     /\ semaphore'[tasks[t].sess] = semaphore[tasks[t].sess]
            /\ rx' = <<>>
       /\ (cause = "Err:server" /\ cause' = "Err:server") =>
            /\ spc' = "none"
            /\ wire' = wire
            /\ TOTAL_REQUESTS' = TOTAL_REQUESTS
            /\ Len(tasks') = Len(tasks)
      ]_vars

\* The session ended on an ERROR while one of its backend calls was
\* executing, and main is in its reconnect delay.
C7_Witness ==
    /\ cause = "Err:server"
    /\ mpc = "delay"
    /\ Executing(sess) # {}

\* C8: when run_connection returns while RUNNING is true main goes to its
\* reconnect delay; the delay is followed by the loop test, the loop test
\* with RUNNING true by a new connection attempt; main exits only with
\* RUNNING false.
C8_ReconnectsWhileRunning ==
    [][/\ (spc # "none" /\ spc' = "none" /\ RUNNING) => mpc' = "delay"
       /\ (mpc = "delay" /\ mpc' # "delay") => mpc' = "check"
       /\ (mpc = "check" /\ RUNNING /\ mpc' # "check") =>
            (mpc' = "run" /\ spc' = "connect")
       /\ mpc' = "exit" => ~RUNNING'
      ]_vars

\* A later connection attempt is made after a session in which a request
\* was routed has ended.
C8_Witness == mpc = "run" /\ spc = "connect" /\ sess > 0 /\ RUNNING

\* C9: every reply on the outbound queue or written to the connection was
\* produced by a task of the session that owns them; a task whose session is
\* not the live one, or has ended, leaves queue and connection untouched when
\* it completes; a session that ends leaves its tasks as they are.
C9_RepliesStayInSession ==
    [][/\ \A i \in DOMAIN rx' : rx'[i].a[4] = sess'
       /\ \A i \in DOMAIN wire' :
            wire'[i].k \in ReplyKinds => wire'[i].a[4] = sess'
       /\ tasks' # tasks =>
            \A t \in DOMAIN tasks :
                (/\ tasks[t].st = "running" /\ tasks'[t].st # "running"
                 /\ (tasks[t].sess # sess \/ spc \in {"connect", "none"}))
                => (rx' = rx /\ wire' = wire)
       /\ (spc # "none" /\ spc' = "none") => tasks' = tasks
      ]_vars

\* The first session's task completed after its session had ended, and a
\* later session is in its event loop with nothing on its queue.
C9_Witness ==
    /\ tasks # <<>>
    /\ tasks[1].st = "dropped"
    /\ sess > 0
    /\ mpc = "run" /\ spc = "select"
    /\ rx = <<>>

\* C10: an INFERENCE_REQUEST is handled in one step that takes no permit and
\* leaves the loop at its head; while every permit of the session is held the
\* loop, waiting in select, can route a further INFERENCE_REQUEST, answer a
\* PING and send a HEARTBEAT.
C10_RoutingNeverBlocks ==
    (mpc = "run" /\ spc = "select" /\ semaphore[sess] = 0) =>
        /\ ENABLED RoutePing
        /\ ENABLED Heartbeat
        /\ Len(tasks) < MaxTasks => ENABLED RouteInferenceRequest

\* Every permit is held, a further request has been accepted and waits, and
\* the loop has just answered a PING.
C10_Witness ==
    /\ spc = "head"
    /\ sess \in DOMAIN semaphore
    /\ semaphore[sess] = 0
    /\ Waiting(sess) # {}
    /\ wire = <<Frame("PONG", <<>>)>>

\* An INTERVIEW_RESULT frame one of whose prompt results carries an error.
FailedInterview(f) ==
    f.k = "INTERVIEW_RESULT" /\ \E i \in DOMAIN f.a : f.a[i].error # <<>>

\* C11: a registration step (whatever its listing returned) leaves the
\* handler running or the loop at its head; the step in which a task pushes
\* an INFERENCE_ERROR changes nothing of the event loop; the step that sends
\* an INTERVIEW_RESULT with failed prompts leaves the loop at its head; in
\* each case run_connection has not returned and no cause is set.
C11_BackendFaultsNotFatal ==
    [][/\ spc = "reg" =>
            (mpc' = "run" /\ spc' \in {"reg", "head"} /\ cause' = "none")
       /\ (Len(rx') > Len(rx) /\ rx'[Len(rx')].k = "INFERENCE_ERROR") =>
            (mpc' = "run" /\ spc' = spc /\ spc' # "none" /\ cause' = "none")
       /\ (spc = "interview" /\ spc' # "interview") =>
            (mpc' = "run" /\ spc' = "head" /\ cause' = "none")
      ]_vars

\* The loop is at its head after an interview in which a prompt failed, with
\* the INFERENCE_ERROR of a failed task on the outbound queue.
C11_Witness ==
    /\ mpc = "run" /\ spc = "head"
    /\ wire # <<>> /\ FailedInterview(wire[Len(wire)])
    /\ \E i \in DOMAIN rx : rx[i].k = "INFERENCE_ERROR"

\* C12: the step that routes an undecodable text frame writes nothing,
\* pushes nothing, spawns no task, leaves the request counter and the
\* semaphores alone and leaves the loop at its head with the session running;
\* from there the loop goes back to its select unless RUNNING is false.
C12_UndecodableDropped ==
    [][/\ (spc = "select" /\ last' = "undecodable") =>
            /\ wire' = <<>> /\ werr' = FALSE
            /\ rx' = rx
            /\ tasks' = tasks
            /\ TOTAL_REQUESTS' = TOTAL_REQUESTS
            /\ semaphore' = semaphore
            /\ mpc' = "run" /\ spc' = "head" /\ cause' = "none"
       /\ (spc = "head" /\ last = "undecodable" /\ spc' # "head") =>
            spc' = IF RUNNING THEN "select" ELSE "none"
      ]_vars

\* The loop is back in its select after an undecodable frame; nothing was
\* counted.
C12_Witness ==
    /\ mpc = "run" /\ spc = "head" /\ RUNNING
    /\ last = "undecodable"
    /\ TOTAL_REQUESTS = 0
    /\ wire = <<>>

\* The steps main and run_connection take by themselves, each from a
\* control point of its own: the loop tests (MainLoop, LoopHead), the end of
\* the reconnect sleep (DelayDone), the return of connect_async and of the
\* AUTH write (Connect, SendAuth), the return of a handler that has begun
\* (RegisterNode, InterviewSend) and the heartbeat sleep of a select that
\* nothing else wakes (Heartbeat).
OwnStep ==
    \/ MainLoop
    \/ DelayDone
    \/ Connect
    \/ SendAuth
    \/ LoopHead
    \/ RegisterNode
    \/ InterviewSend
    \/ Heartbeat

\* The runtime lets main and run_connection take their own steps; nothing is
\* assumed of the peer, of the backends' results or of the spawned tasks.
ShutdownSpec == Spec /\ WF_vars(OwnStep)

\* C13: once RUNNING is false main reaches its exit, with no help from the
\* peer and whatever the spawned tasks do.
C13_ShutdownReached == ~RUNNING ~> mpc = "exit"

\* Main has exited while a backend call was still executing and another task
\* still waited for a permit.
C13_Witness ==
    /\ mpc = "exit"
    /\ \E t \in DOMAIN tasks : tasks[t].st = "running"
    /\ \E t \in DOMAIN tasks : tasks[t].st = "queued"


\* A step that starts new work: an INFERENCE_REQUEST is handed to a spawned
\* task, an interview or a registration sequence begins, or run_connection is
\* called and opens a connection.
StartsWork ==
    \/ Len(tasks') > Len(tasks)
    \/ spc # "interview" /\ spc' = "interview"
    \/ spc # "reg" /\ spc' = "reg"
    \/ spc # "connect" /\ spc' = "connect"

\* C14 (as stated): once RUNNING is false no step starts new work: no
\* INFERENCE_REQUEST is handed over, no interview and no registration sequence
\* begins, no connection attempt is opened.
C14_NoNewWorkAfterSignal == [][~RUNNING => ~StartsWork]_vars

\* C14 (amended): RUNNING is polled once per loop iteration. Once it is false
\* it stays false, and new work is started only by an event-loop iteration
\* that was already waiting in its select when the flag fell: a loop test
\* that reads the flag false ends the session (event loop) or the process
\* (reconnection loop) without starting anything, and no connection attempt
\* is opened.
C14_OnlyIterationInProgress ==
    [][~RUNNING =>
         /\ ~RUNNING'
         /\ StartsWork => (mpc = "run" /\ spc = "select" /\ spc' # "connect")
         /\ (spc = "head" /\ spc' # "head") => (spc' = "none" /\ mpc' # "run")
         /\ mpc = "check" => mpc' \in {"check", "exit"}
         /\ mpc = "delay" => mpc' \in {"delay", "check"}
         /\ mpc = "exit" => (mpc' = "exit" /\ spc' = "none")]_vars

\* The flag is false, the iteration that was waiting has handed over an
\* INFERENCE_REQUEST, and the loop is about to read the flag.
C14_Witness == ~RUNNING /\ mpc = "run" /\ spc = "head"
               /\ last = "INFERENCE_REQUEST" /\ tasks # <<>>


\* The REGISTER_NODE frames among the frames w.
Registrations(w) == {i \in DOMAIN w : w[i].k = "REGISTER_NODE"}

\* C15 (as stated, for the first iteration of a session's event loop, when no
\* REGISTER_NODE has been sent yet): no INFERENCE_REQUEST is handed to a
\* spawned task, no interview is begun and no HEARTBEAT is sent.
C15_RegistrationFirst ==
    [][(mpc = "run" /\ spc = "select" /\ last = "entry") =>
         /\ Len(tasks') = Len(tasks)
         /\ spc' # "interview"
         /\ \A i \in DOMAIN wire' : wire'[i].k # "HEARTBEAT"]_vars

\* C15 (amended): registration is a handler of the event loop, begun whenever
\* AUTH_SUCCESS is routed, and it runs to its end inside that one iteration:
\* until the REGISTER_NODE of every configured node has been written the loop
\* hands no INFERENCE_REQUEST over, begins no interview, and writes nothing
\* but REGISTER_NODE frames (no HEARTBEAT, no reply).
C15_RegistrationUninterrupted ==
    [][spc = "reg" =>
         /\ Len(tasks') = Len(tasks)
         /\ spc' \in {"reg", "head"}
         /\ wire' # wire =>
              /\ Len(wire') = Len(wire) + 1
              /\ wire'[Len(wire')].k = "REGISTER_NODE"
         /\ spc' = "head" =>
              Cardinality(Registrations(wire')) = Len(config.nodes)]_vars

\* Every node of a MaxNodes configuration has been registered in a session
\* that already had a request running before AUTH_SUCCESS was handled.
C15_Witness ==
    /\ mpc = "run" /\ spc = "head" /\ last = "AUTH_SUCCESS"
    /\ Len(config.nodes) = MaxNodes
    /\ Cardinality(Registrations(wire)) = MaxNodes
    /\ \E t \in DOMAIN tasks : tasks[t].sess = sess


\* C16: frames are written in the order they are enqueued: a reply that is
\* written is the oldest one of the outbound queue, and a frame a handler or
\* the heartbeat timer produces (AUTH, PONG, UPDATE_WALLET, REGISTER_NODE,
\* INTERVIEW_RESULT, HEARTBEAT) is written only when no reply is waiting in
\* the outbound queue, never ahead of one.
C16_EnqueueOrder ==
    [][Len(wire') = Len(wire) + 1 =>
         LET f == wire'[Len(wire')]
         IN  IF f.k \in ReplyKinds
             THEN rx # <<>> /\ f = Head(rx) /\ rx' = Tail(rx)
             ELSE rx = <<>>]_vars


\* q is an initial part of r.
IsPrefix(q, r) == Len(q) <= Len(r) /\ SubSeq(r, 1, Len(q)) = q

\* C17: while the INTERVIEW_REQUEST handler runs, the loop takes no other
\* branch (no frame routed, no task spawned), the only frame written is the
\* INTERVIEW_RESULT that ends the handler, and no reply leaves the outbound
\* queue: replies enqueued meanwhile stay there, in order, past the write of
\* the INTERVIEW_RESULT. The spawned tasks are not held up: one that is in
\* its backend call can complete, one that waits can take a free permit.
C17_InterviewBlocksLoop ==
    [][spc = "interview" =>
         /\ mpc' = "run" /\ spc' \in {"interview", "head"}
         /\ last' = "INTERVIEW_REQUEST"
         /\ Len(tasks') = Len(tasks)
         /\ TOTAL_REQUESTS' = TOTAL_REQUESTS
         /\ IsPrefix(rx, rx')
         /\ IF spc' = "head"
            THEN /\ Len(wire') = Len(wire) + 1
                 /\ wire'[Len(wire')].k = "INTERVIEW_RESULT"
                 /\ rx' = rx
            ELSE wire' = wire
         /\ \A t \in DOMAIN tasks :
              /\ (tasks[t].st = "running" /\ tasks[t].sess = sess)
                     => ENABLED Complete(t)
              /\ (tasks[t].st = "queued" /\ tasks[t].sess = sess
                     /\ semaphore[sess] > 0) => ENABLED Acquire(t)]_vars

\* The INTERVIEW_RESULT has just been written and a reply is waiting in the
\* outbound queue behind it.
C17_Witness ==
    /\ mpc = "run" /\ spc = "head" /\ last = "INTERVIEW_REQUEST"
    /\ wire # <<>> /\ wire[Len(wire)].k = "INTERVIEW_RESULT"
    /\ rx # <<>>
    /\ \E t \in DOMAIN tasks : tasks[t].st = "running"


\* The scripts an interview can be given and what the backend does with each
\* call: k prompts, outs[i] the result and latency of the i-th call.
Scripts == UNION {{[k |-> k, outs |-> o] : o \in [1..k -> ChatResults \X Latencies]}
                  : k \in 0..MaxPrompts}

\* C18: whenever an interview is running, whatever its script of k prompts
\* and whatever the backend answers, execute_interview yields exactly k
\* entries, entry i carries the id of prompt i, has its error set exactly
\* when call i failed, and is populated from call i alone when it succeeded;
\* and every INTERVIEW_RESULT written has its entries in prompt order.
C18_InterviewNeverAborts ==
    /\ spc = "interview" =>
         \A s \in Scripts :
            LET results == ExecuteInterview(1, s.k, s.outs)
            IN  /\ Len(results) = s.k
                /\ \A i \in 1..s.k :
                     /\ results[i].prompt_id = i
                     /\ results[i].total_ms = s.outs[i][2]
                     /\ (results[i].error # <<>>) = ~s.outs[i][1].ok
                     /\ s.outs[i][1].ok =>
                          /\ results[i].response # ""
                          /\ results[i].tokens_generated = s.outs[i][1].usage[1]
    /\ \A f \in DOMAIN wire :
         wire[f].k = "INTERVIEW_RESULT" =>
            \A i \in DOMAIN wire[f].a : wire[f].a[i].prompt_id = i

\* An INTERVIEW_RESULT of MaxPrompts entries has been written whose first
\* prompt failed and whose last one succeeded.
C18_Witness ==
    /\ spc = "head" /\ last = "INTERVIEW_REQUEST" /\ wire # <<>>
    /\ LET r == wire[Len(wire)]
       IN  /\ r.k = "INTERVIEW_RESULT"
           /\ Len(r.a) = MaxPrompts
           /\ r.a[1].error # <<>>
           /\ r.a[MaxPrompts].error = <<>>
           /\ r.a[MaxPrompts].tokens_generated > 0


\* The aliases of the configured nodes.
Aliases == {config.nodes[i] : i \in DOMAIN config.nodes}

\* C19: whenever the loop waits for a frame, an INTERVIEW_REQUEST it may
\* receive is resolved to a configured node whose alias is the request's
\* node_id and, when node_id is absent or is the alias of no configured
\* node, to the first configured node.
C19_TargetResolution ==
    Routing =>
        \A node_id \in NodeIds(config.nodes) :
            LET target == ResolveTarget(node_id)
            IN  IF node_id # <<>> /\ node_id[1] \in Aliases
                THEN target \in DOMAIN config.nodes
                     /\ config.nodes[target] = node_id[1]
                ELSE target = 1


\* A step that writes an AUTH frame.
AuthWritten ==
    /\ Len(wire') = Len(wire) + 1
    /\ wire'[Len(wire')].k = "AUTH"

\* C20: a session writes nothing while it connects; a connection that opens
\* is followed by one step that writes AUTH as the first frame, and AUTH is
\* written by no other step; until then nothing is routed and no task is
\* spawned. If the write succeeds the event loop is entered at its first
\* iteration; if connecting or the write fails, run_connection returns the
\* transport error with nothing else written and the loop never entered.
C20_AuthFirst ==
    [][/\ AuthWritten => (mpc = "run" /\ spc = "auth" /\ spc' # "auth")
       /\ spc' = "auth" => (spc \in {"connect", "auth"} /\ wire' = <<>>)
       /\ spc \in {"connect", "auth"} =>
            /\ last' \in {"none", "entry"}
            /\ Len(tasks') = Len(tasks)
            /\ spc' \in {"connect", "auth", "head", "none"}
       /\ (spc = "connect" /\ spc' # "connect") =>
            /\ wire' = <<>>
            /\ spc' = "auth" \/ (spc' = "none" /\ cause' = "Err:connect"
                                  /\ mpc' # "run")
       /\ (spc = "auth" /\ spc' # "auth") =>
            /\ wire' = <<Frame("AUTH", <<>>)>>
            /\ IF werr'
               THEN spc' = "none" /\ cause' = "Err:send" /\ mpc' # "run"
               ELSE spc' = "head" /\ last' = "entry" /\ cause' = "none"
       /\ (spc' = "select" /\ spc # "select") => spc = "head"]_vars

\* A second session has written its AUTH and stands before its first loop
\* test, after a first session that failed on its AUTH write.
C20_Witness ==
    /\ mpc = "run" /\ spc = "head" /\ last = "entry"
    /\ wire = <<Frame("AUTH", <<>>)>> /\ ~werr
    /\ sess > 0


\* The UPDATE_WALLET frames among the frames w.
WalletUpdates(w) == {i \in DOMAIN w : w[i].k = "UPDATE_WALLET"}

\* C21: the frames of an AUTH_SUCCESS iteration are, when payout_address is
\* Some and non-empty, one UPDATE_WALLET carrying that address, written first,
\* and REGISTER_NODE frames behind it; when payout_address is None or empty
\* they are REGISTER_NODE frames only. No other iteration writes an
\* UPDATE_WALLET.
C21_WalletUpdateFirst ==
    /\ \A i \in WalletUpdates(wire) :
         /\ config.payout_address \notin {"none", "empty"}
         /\ last = "AUTH_SUCCESS"
         /\ i = 1
         /\ wire[i].a = <<config.payout_address>>
    /\ (mpc = "run" /\ last = "AUTH_SUCCESS") =>
         /\ config.payout_address \notin {"none", "empty"} =>
              WalletUpdates(wire) = {1}
         /\ \A i \in DOMAIN wire :
              wire[i].k \in {"UPDATE_WALLET", "REGISTER_NODE"}
         /\ spc = "head" =>
              Cardinality(Registrations(wire)) = Len(config.nodes)

\* An AUTH_SUCCESS of a MaxNodes configuration with a wallet has been
\* handled: UPDATE_WALLET, then one REGISTER_NODE per node.
C21_Witness ==
    /\ mpc = "run" /\ spc = "head" /\ last = "AUTH_SUCCESS"
    /\ config.payout_address = "addr"
    /\ Len(wire) = MaxNodes + 1
    /\ wire[1].k = "UPDATE_WALLET"
    /\ wire[Len(wire)].k = "REGISTER_NODE"


\* C22: whenever an interview is running, whatever one chat_completion call
\* returns after whatever latency, run_interview_prompt yields, for a failed
\* call, empty response text, ttft_ms = 0, total_ms = 0, tokens_generated = 0
\* and an error; for a successful call, no error, ttft_ms = total_ms / 2
\* rounded down and the reported completion-token count, 0 when none is
\* reported.
C22_PromptResultFields ==
    spc = "interview" =>
        \A r \in ChatResults \cup {[ok |-> TRUE, usage |-> <<>>]},
           total_ms \in Latencies :
            LET result == RunInterviewPrompt(1, r, total_ms)
            IN  IF r.ok
                THEN /\ result.error = <<>>
                     /\ result.total_ms = total_ms
                     /\ result.ttft_ms = total_ms \div 2
                     /\ result.tokens_generated =
                            IF r.usage = <<>> THEN 0 ELSE r.usage[1]
                ELSE /\ result.response = ""
                     /\ result.ttft_ms = 0
                     /\ result.total_ms = 0
                     /\ result.tokens_generated = 0
                     /\ result.error # <<>>


\* C23: the step that routes a REGISTER_NODE_ACK, HEARTBEAT_ACK,
\* MODEL_LIST_ACK, UPDATE_WALLET_ACK or INTERVIEW_COMPLETE, one of tier
\* "failed" too, changes nothing but the loop's position: no frame is
\* written, no task spawned or moved, TOTAL_REQUESTS, the semaphore and the
\* outbound queue are as before, and the session goes on to its next loop
\* test.
C23_AcksChangeNothing ==
    [][(spc = "select" /\ last' \in {"ack", "ack:failed"}) =>
         /\ wire' = wire /\ werr' = werr
         /\ tasks' = tasks
         /\ TOTAL_REQUESTS' = TOTAL_REQUESTS
         /\ semaphore' = semaphore
         /\ rx' = rx
         /\ reg' = reg /\ iv' = iv
         /\ mpc' = "run" /\ spc' = "head" /\ cause' = "none"]_vars

\* An INTERVIEW_COMPLETE of tier "failed" has been routed while a request was
\* running and a reply waited; the session is still there.
C23_Witness ==
    /\ mpc = "run" /\ spc = "head" /\ last = "ack:failed" /\ RUNNING
    /\ wire = <<>> /\ rx # <<>>
    /\ \E t \in DOMAIN tasks : tasks[t].st = "running" /\ tasks[t].sess = sess


\* A step of a spawned task: a task changes, none is added.
TaskStep == tasks' # tasks /\ Len(tasks') = Len(tasks)

\* C24: a step of a spawned task writes nothing to the connection: at most it
\* puts one reply at the end of the outbound queue. Every frame is written by
\* a step of run_connection, one frame per step, at a point where
\* run_connection holds the connection (AUTH, a select branch, a handler),
\* and no task changes in that step.
C24_OnlyLoopWrites ==
    [][/\ TaskStep =>
            /\ wire' = wire /\ werr' = werr
            /\ \/ rx' = rx
               \/ /\ Len(rx') = Len(rx) + 1
                  /\ IsPrefix(rx, rx')
                  /\ rx'[Len(rx')].k \in ReplyKinds
       /\ (wire' # wire /\ wire' # <<>>) =>
            /\ wire' = Append(wire, wire'[Len(wire')])
            /\ tasks' = tasks
            /\ mpc = "run"
            /\ spc \in {"auth", "select", "reg", "interview"}
            /\ <<spc, reg>>' # <<spc, reg>>]_vars

\* The loop has written a reply taken from the outbound queue while another
\* task is in its backend call.
C24_Witness ==
    /\ mpc = "run" /\ spc = "head" /\ last = "reply"
    /\ Len(wire) = 1 /\ wire[1].k \in ReplyKinds
    /\ \E t \in DOMAIN tasks : tasks[t].st = "running" /\ tasks[t].sess = sess


\* C25: in every state and for every limiter in use, the free permits plus
\* the tasks inside their backend call are max_threads: a permit is held
\* exactly by the tasks between acquire and the end of the task, whatever the
\* backend returned. A task that holds or awaits a permit has its limiter,
\* and a limiter none of whose tasks is left has every permit free.
C25_PermitsNeverLeak ==
    /\ \A s \in DOMAIN semaphore :
         /\ semaphore[s] \in 0..max_threads
         /\ semaphore[s] + Cardinality(Executing(s)) = max_threads
         /\ (Executing(s) = {} /\ Waiting(s) = {}) => semaphore[s] = max_threads
    /\ \A t \in DOMAIN tasks :
         tasks[t].st \in {"queued", "running"} => tasks[t].sess \in DOMAIN semaphore

\* Every one of MaxTasks submitted tasks has finished in the live session, one
\* of them with a failed backend call, and every permit is free again.
C25_Witness ==
    /\ mpc = "run" /\ sess \in DOMAIN semaphore
    /\ Len(tasks) = MaxTasks
    /\ \A t \in DOMAIN tasks : tasks[t].st = "sent"
    /\ \E i \in DOMAIN rx : rx[i].k = "INFERENCE_ERROR" /\ rx[i].a[4] = sess
    /\ semaphore[sess] = max_threads


\* C26: a session that connects gets a limiter of its own with max_threads
\* free permits, and the limiters of earlier sessions are left as they are; a
\* step of a task changes no limiter but that of the session that spawned
\* it; and a waiting task of the live session none of whose calls is
\* executing can take a permit at once, whatever tasks of earlier sessions
\* still hold.
C26_LimiterPerSession ==
    [][/\ (spc = "connect" /\ spc' = "auth") =>
            /\ sess \notin DOMAIN semaphore
            /\ sess \in DOMAIN semaphore'
            /\ semaphore'[sess] = max_threads
            /\ \A s \in DOMAIN semaphore :
                 s \in DOMAIN semaphore' /\ semaphore'[s] = semaphore[s]
       /\ TaskStep =>
            \A s \in DOMAIN semaphore \cap DOMAIN semaphore' :
                semaphore'[s] # semaphore[s] =>
                    \E t \in DOMAIN tasks :
                        tasks'[t] # tasks[t] /\ tasks[t].sess = s
       /\ (mpc = "run" /\ sess \in DOMAIN semaphore /\ Executing(sess) = {}) =>
            \A t \in Waiting(sess) : ENABLED Acquire(t)]_vars

\* With a limiter of one permit, a call of an earlier session is still
\* executing and holds that session's only permit while a call of the live
\* session executes too.
C26_Witness ==
    /\ mpc = "run" /\ sess \in DOMAIN semaphore
    /\ Executing(sess) # {}
    /\ \E t \in DOMAIN tasks :
         /\ tasks[t].st = "running" /\ tasks[t].sess # sess
         /\ semaphore[tasks[t].sess] = 0


\* The kinds of frame an AUTH_SUCCESS produces.
AuthSuccessKinds == {"UPDATE_WALLET", "REGISTER_NODE"}

\* C27: from the step that routes an AUTH_SUCCESS to the step that writes the
\* last REGISTER_NODE, the loop takes no other select branch: the frames
\* written since the AUTH_SUCCESS was routed are UPDATE_WALLET and
\* REGISTER_NODE frames only (no HEARTBEAT, no PONG, no reply), no reply
\* leaves the outbound queue, and no other inbound frame is routed.
C27_RegistrationContiguous ==
    [][/\ (spc = "select" /\ spc' = "reg") =>
            /\ last' = "AUTH_SUCCESS"
            /\ rx' = rx
            /\ \A i \in DOMAIN wire' : wire'[i].k = "UPDATE_WALLET"
       /\ spc = "reg" =>
            /\ last = "AUTH_SUCCESS" /\ last' = "AUTH_SUCCESS"
            /\ mpc' = "run"
            /\ IsPrefix(rx, rx')
            /\ IsPrefix(wire, wire')
            /\ \A i \in DOMAIN wire' : wire'[i].k \in AuthSuccessKinds
            /\ iv' = NoIv
            /\ TOTAL_REQUESTS' = TOTAL_REQUESTS]_vars

\* The registration loop stands between two nodes: the REGISTER_NODE of the
\* first has been written, a reply is waiting in the outbound queue, and the
\* next node is still to come.
C27_Witness ==
    /\ mpc = "run" /\ spc = "reg" /\ reg.i = 2
    /\ wire # <<>> /\ wire[Len(wire)].k = "REGISTER_NODE"
    /\ rx # <<>>

====
